---- MODULE Spec2Model ----
(***************************************************************************)
(* HTTP/1.1 pipelining strategy (src/http/1.1/strategies/Pipeline.js).     *)
(*                                                                         *)
(* The model follows the class method by method.  A method is an operator  *)
(* over a "world" record                                                   *)
(*     [q, sinks, term, clock, cb, acc, seen, destroyed, ret, err]         *)
(* holding the queue _pendingRequests, the active sinks reachable through  *)
(* request.response, the records returned by terminateRequest, the         *)
(* process.hrtime clock, the completion-callback invocations, the number   *)
(* of onAccepted invocations and the queue the last one saw, the streams   *)
(* destroyed, the value returned and the exception thrown ("none" when the *)
(* call returned normally).  An action applies a whole handler to the      *)
(* current world.  A handler that throws keeps the writes it made before.  *)
(***************************************************************************)
EXTENDS Integers, Sequences, FiniteSets, TLC

\* ------------------------------------------------------------------ bounds
MaxRecords == 2        \* scheduleSend calls that are admitted
MaxResponses == 2      \* responses the parser emits
MaxBody == 2           \* largest declared body size of a response
MaxChunkLen == 2       \* largest body_chunk the parser emits
MaxChunks == 2         \* body_chunk events the parser emits
MaxCloses == 2         \* close() calls
MaxLimit == 2          \* largest positive maxRequests that is configured
MaxNegLimit == 1       \* the most negative maxRequests is -MaxNegLimit

VARIABLES
    maxRequests,       \* this._maxRequests
    pendingRequests,   \* this._pendingRequests
    sinks,             \* request.response (uWS response) of record id, by id
    tickQueue,         \* callbacks handed to process.nextTick, oldest first
    parser,            \* what the parser will emit next
    clock,             \* process.hrtime
    terminated,        \* records returned by terminateRequest, in order
    cbCalls,           \* completion callback (responseCallback) invocations, by id
    accepted,          \* the queue onAccepted saw, if the last step called it
    processed,         \* bytes of response j already given to addBody, by j
    hist,              \* counters of the calls made so far
    last               \* the operation just performed and its outcome

vars == <<maxRequests, pendingRequests, sinks, tickQueue, parser, clock,
          terminated, cbCalls, accepted, processed, hist, last>>

\* ------------------------------------------------------------- JS values
Undefined == [undefined |-> TRUE]
NullStatus == 0
NoOffset == -1

RecordIds == 1..MaxRecords
ResponseIds == 1..MaxResponses

Min(a, b) == IF a < b THEN a ELSE b

\* the k-th body byte of response j
Byte(j, k) == j * 10 + k

\* the headers event of response j, declaring a body of n bytes
StatusCodeOf(j) == 200 + j
StatusMessageOf(j) == <<j>>
HeadersOf(j, n) == [resp |-> j, contentLength |-> n]
NoHeaders == [none |-> TRUE]

\* headers['content-length']; 0 stands for undefined (no declared total)
ContentLength(headers) ==
    IF headers = NoHeaders THEN 0 ELSE headers.contentLength

\* Buffer.subarray(start) for start >= 0
subarray(data, start) ==
    IF start >= Len(data) THEN <<>> ELSE SubSeq(data, start + 1, Len(data))

\* ------------------------------------------------ the active sink (uWS)
\* request.response before anything was written to it
\* written is what the sink has taken, arrived the chunks handed to it
NewSink == [offset |-> 0, written |-> <<>>, arrived |-> <<>>,
            abOffset |-> NoOffset, handler |-> <<>>, waiting |-> FALSE,
            ended |-> FALSE]

\* uwsResponse.tryEnd(data, totalSize) when the sink takes k more bytes:
\* [ok, done] and the sink afterwards
tryEnd(sink, data, totalSize, k) ==
    LET n == Min(k, Len(data))
        total == IF totalSize = 0 THEN sink.offset + Len(data) ELSE totalSize
        offset == sink.offset + n
    IN  [ok |-> n = Len(data),
         done |-> offset = total,
         sink |-> [sink EXCEPT !.offset = offset,
                               !.written = @ \o SubSeq(data, 1, n),
                               !.ended = (offset = total)]]

\* ------------------------------------------------------------ the methods
World == [q |-> pendingRequests, sinks |-> sinks, term |-> terminated,
          clock |-> clock, cb |-> cbCalls, acc |-> hist.accepts, seen |-> <<>>,
          destroyed |-> {}, ret |-> "undefined", err |-> "none"]

\* acceptsMoreRequests comparing with <= instead of <
acceptsMoreRequestsInclusive(w) ==
    maxRequests = 0 \/ Len(w.q) <= maxRequests

acceptsMoreRequests(w) ==
    maxRequests = 0 \/ Len(w.q) < maxRequests

size(w) == Len(w.q)

toArray(w) == w.q

peek(w) ==
    IF Len(w.q) > 0 THEN w.q[1] ELSE Undefined

\* the record scheduleSend builds for the request
NewRecord(id, request, now) ==
    [id |-> id, request |-> request, body |-> Undefined,
     headers |-> NoHeaders, statusCode |-> NullStatus, statusMessage |-> <<>>,
     startTime |-> now, headersTime |-> NoOffset, duration |-> NoOffset,
     bytes |-> 0]

overflowOffByOne(w) ==
    maxRequests > 0 /\ Len(w.q) > maxRequests

\* the overflow test without its maxRequests > 0 guard
overflowWithoutGuard(w) ==
    Len(w.q) >= maxRequests

overflow(w) ==
    maxRequests > 0 /\ Len(w.q) >= maxRequests

\* scheduleSend calling callback() before the push
scheduleSendAcknowledgesFirst(w, id, request) ==
    IF overflow(w)
    THEN [w EXCEPT !.err = "E_PIPELINE_OVERFLOW"]
    ELSE LET pipelinedRequest == NewRecord(id, request, w.clock)
             called == [w EXCEPT !.acc = @ + 1, !.seen = toArray(w)]
         IN  [called EXCEPT !.q = Append(@, pipelinedRequest),
                            !.clock = @ + 1]

scheduleSend(w, id, request) ==
    IF overflow(w)
    THEN [w EXCEPT !.err = "E_PIPELINE_OVERFLOW"]
    ELSE LET pipelinedRequest == NewRecord(id, request, w.clock)
             pushed == [w EXCEPT !.q = Append(@, pipelinedRequest),
                                 !.clock = @ + 1]
         IN  \* callback()
             [pushed EXCEPT !.acc = @ + 1, !.seen = toArray(pushed)]

addByteCount(w, count) ==
    IF peek(w) = Undefined
    THEN [w EXCEPT !.err = "TypeError"]
    ELSE [w EXCEPT !.q[1].bytes = @ + count]

\* the drain handler slicing the chunk at the notified offset itself
onWritableAbsoluteOffset(w, id, k) ==
    LET uwsResponse == w.sinks[id]
        h == uwsResponse.handler[1]
        offset == uwsResponse.offset
        r == tryEnd(uwsResponse, subarray(h.data, offset), h.total, k)
    IN  [w EXCEPT !.sinks[id] = [r.sink EXCEPT !.waiting = ~r.ok],
                  !.ret = IF r.ok THEN "true" ELSE "false"]

\* the drain handler answering true whatever the retry wrote
onWritableReturnsTrue(w, id, k) ==
    LET uwsResponse == w.sinks[id]
        h == uwsResponse.handler[1]
        offset == uwsResponse.offset
        r == tryEnd(uwsResponse,
                    subarray(h.data, offset - uwsResponse.abOffset),
                    h.total, k)
    IN  [w EXCEPT !.sinks[id] = [r.sink EXCEPT !.waiting = FALSE],
                  !.ret = "true"]

\* the function addBody hands to uwsResponse.onWritable, called with the
\* sink's write offset when the sink of record id takes k more bytes
onWritable(w, id, k) ==
    LET uwsResponse == w.sinks[id]
        h == uwsResponse.handler[1]
        offset == uwsResponse.offset
        r == tryEnd(uwsResponse,
                    subarray(h.data, offset - uwsResponse.abOffset),
                    h.total, k)
    IN  [w EXCEPT !.sinks[id] = [r.sink EXCEPT !.waiting = ~r.ok],
                  !.ret = IF r.ok THEN "true" ELSE "false"]

addBody(w, data, k) ==
    IF peek(w) = Undefined
    THEN [w EXCEPT !.err = "TypeError"]
    ELSE LET counted == addByteCount(w, Len(data))
             pipelinedRequest == peek(counted)
             id == pipelinedRequest.id
             uwsResponse == counted.sinks[id]
         IN  IF pipelinedRequest.request.response
             THEN IF uwsResponse.ended
                  THEN \* getWriteOffset of a response that has ended
                       [counted EXCEPT !.err = "Error"]
                  ELSE LET lastOffset == uwsResponse.offset
                           total == ContentLength(pipelinedRequest.headers)
                           r == tryEnd([uwsResponse EXCEPT !.arrived = @ \o data],
                                       data, total, k)
                       IN  IF r.done \/ r.ok
                           THEN [counted EXCEPT !.sinks[id] = r.sink]
                           ELSE [counted EXCEPT !.sinks[id] =
                                    [r.sink EXCEPT
                                        !.abOffset = lastOffset,
                                        !.handler = <<[data |-> data,
                                                       total |-> total]>>,
                                        !.waiting = TRUE]]
             ELSE IF pipelinedRequest.body = Undefined
                  THEN \* pipelinedRequest.body.push of a record without body
                       [counted EXCEPT !.err = "TypeError"]
                  ELSE counted

\* setStatus writing to the newest record instead of the head
setStatusNewest(w, statusCode, statusMessage) ==
    IF peek(w) # Undefined
    THEN [w EXCEPT !.q[Len(w.q)].statusCode = statusCode,
                   !.q[Len(w.q)].statusMessage = statusMessage]
    ELSE w

setStatus(w, statusCode, statusMessage) ==
    IF peek(w) # Undefined
    THEN [w EXCEPT !.q[1].statusCode = statusCode,
                   !.q[1].statusMessage = statusMessage]
    ELSE w

setHeaders(w, headers) ==
    IF peek(w) # Undefined
    THEN [w EXCEPT !.q[1].headers = headers,
                   !.q[1].headersTime = w.clock,
                   !.clock = @ + 1]
    ELSE w

\* terminateRequest taking the newest record (pop) instead of the oldest
terminateRequestPop(w) ==
    IF Len(w.q) > 0
    THEN LET data == w.q[Len(w.q)]
             hrduration == w.clock - data.startTime
         IN  [w EXCEPT !.q = SubSeq(@, 1, Len(@) - 1),
                       !.term = Append(@, [data EXCEPT !.duration = hrduration]),
                       !.clock = @ + 1]
    ELSE w

terminateRequest(w) ==
    IF Len(w.q) > 0
    THEN LET data == Head(w.q)
             hrduration == w.clock - data.startTime
         IN  [w EXCEPT !.q = Tail(@),
                       !.term = Append(@, [data EXCEPT !.duration = hrduration]),
                       !.clock = @ + 1]
    ELSE w

\* the body of close's forEach, from the i-th record on.  onAborted is what
\* the completion callbacks do when called with the abort error: nothing
\* (<<>>) or submit one more request, which scheduleSend numbers next
RECURSIVE closeEach(_, _, _, _)
closeEach(w, records, i, onAborted) ==
    IF i > Len(records)
    THEN w
    ELSE LET pipelinedRequest == records[i]
             id == pipelinedRequest.id
             called == [w EXCEPT !.cb[id] = Append(@, "E_PIPELINE_ABORTED")]
             reacted == IF onAborted = <<>>
                        THEN called
                        ELSE scheduleSend(called, called.acc + 1, onAborted[1])
         IN  IF reacted.err # "none"
             THEN reacted
             ELSE IF pipelinedRequest.body = Undefined
             THEN \* pipelinedRequest.response.body.destroy of a record without body
                  [reacted EXCEPT !.err = "TypeError"]
             ELSE LET gone == [reacted EXCEPT !.destroyed = @ \cup {<<id, "response">>}]
                      both == IF pipelinedRequest.request.body
                              THEN [gone EXCEPT !.destroyed = @ \cup {<<id, "request">>}]
                              ELSE gone
                  IN  closeEach(both, records, i + 1, onAborted)

\* close emptying the queue also when its forEach has thrown
closeClearsAlways(w, onAborted) ==
    [closeEach(w, w.q, 1, onAborted) EXCEPT !.q = <<>>]

\* forEach visits the records queued when it starts
close(w, onAborted) ==
    LET each == closeEach(w, w.q, 1, onAborted)
    IN  IF each.err # "none" THEN each ELSE [each EXCEPT !.q = <<>>]

\* the 'headers' listener terminating before it sets status and headers
onHeadersTerminatesFirst(w, statusCode, statusMessage, headers, expectedBodySize) ==
    LET first == IF expectedBodySize = 0 THEN terminateRequest(w) ELSE w
        status == setStatus(first, statusCode, statusMessage)
    IN  setHeaders(status, headers)

\* the parser's 'headers' listener
onHeaders(w, statusCode, statusMessage, headers, expectedBodySize) ==
    LET status == setStatus(w, statusCode, statusMessage)
        set == setHeaders(status, headers)
    IN  IF expectedBodySize = 0 THEN terminateRequest(set) ELSE set

\* the function the 'body_chunk' listener hands to process.nextTick
onBodyChunkTick(w, chunk, isLast, k) ==
    LET added == addBody(w, chunk, k)
    IN  IF added.err # "none" THEN added
        ELSE IF isLast THEN terminateRequest(added) ELSE added

\* ------------------------------------------------------------ the state
\* The requests submitted: one proxied from a uWS connection, whose
\* request.response is the active sink, and one with an outgoing body stream
\* and no sink.  No method reads both fields.
Requests == {[response |-> TRUE, body |-> FALSE],
             [response |-> FALSE, body |-> TRUE]}

\* the fields after the constructor, but for the limit it was given
Constructed ==
    /\ pendingRequests = <<>>
    /\ sinks = [id \in RecordIds |-> NewSink]
    /\ tickQueue = <<>>
    /\ parser = [resp |-> 0, left |-> 0, pos |-> 1, chunks |-> 0]
    /\ clock = 0
    /\ terminated = <<>>
    /\ cbCalls = [id \in RecordIds |-> <<>>]
    /\ accepted = <<>>
    /\ processed = [j \in ResponseIds |-> 0]
    /\ hist = [sends |-> 0, accepts |-> 0, closes |-> 0,
               early |-> FALSE, late |-> FALSE, own |-> <<>>]
    /\ last = [op |-> "new", err |-> "none", ret |-> "undefined",
               sizeBefore |-> 0, arg |-> 0, took |-> 0, destroyed |-> {}]

\* a pipeline built with no limit (0) or a positive one, as documented
Init ==
    /\ maxRequests \in 0..MaxLimit
    /\ Constructed

\* a pipeline built with any integer: the constructor stores what it gets
InitAnyLimit ==
    /\ maxRequests \in (0 - MaxNegLimit)..MaxLimit
    /\ Constructed

\* bytes of the response answering record id that addBody was called with
ProcessedOf(proc, id) ==
    IF id \in DOMAIN proc THEN proc[id] ELSE 0

\* the world a handler leaves behind becomes the state; proc is processed
\* after the handler, h is hist but for its field own
Commit(w, op, arg, k, proc, h) ==
    /\ pendingRequests' = w.q
    /\ sinks' = w.sinks
    /\ terminated' = w.term
    /\ clock' = w.clock
    /\ cbCalls' = w.cb
    /\ accepted' = w.seen
    /\ processed' = proc
    /\ hist' = [h EXCEPT !.own =
                   IF Len(w.term) > Len(terminated)
                   THEN Append(@, ProcessedOf(proc, w.term[Len(w.term)].id))
                   ELSE @]
    /\ last' = [op |-> op, err |-> w.err, ret |-> w.ret,
                sizeBefore |-> Len(pendingRequests), arg |-> arg, took |-> k,
                destroyed |-> w.destroyed]

\* a caller submits a request
ScheduleSend ==
    \E request \in Requests :
        LET w == scheduleSend(World, hist.sends + 1, request)
        IN  /\ w.err = "none" => hist.sends < MaxRecords
            /\ Commit(w, "scheduleSend", 0, 0, processed,
                      [hist EXCEPT
                          !.sends = IF w.err = "none" THEN @ + 1 ELSE @,
                          !.accepts = w.acc,
                          !.late = @ \/ parser.resp > 0])
            /\ UNCHANGED <<maxRequests, tickQueue, parser>>

\* the parser emits the headers of its next response, of n body bytes
Headers ==
    \E n \in 0..MaxBody :
        LET j == parser.resp + 1
            w == onHeaders(World, StatusCodeOf(j), StatusMessageOf(j),
                           HeadersOf(j, n), n)
        IN  /\ parser.left = 0
            /\ parser.resp < MaxResponses
            /\ parser' = [parser EXCEPT !.resp = j, !.left = n, !.pos = 1]
            /\ Commit(w, "headers", n, 0, processed,
                      [hist EXCEPT !.early = @ \/ j > hist.sends])
            /\ UNCHANGED <<maxRequests, tickQueue>>

\* the parser emits the next len body bytes of its current response; the
\* listener only hands the work to process.nextTick
BodyChunk ==
    \E len \in 1..MaxChunkLen :
        LET chunk == [i \in 1..len |-> Byte(parser.resp, parser.pos + i - 1)]
        IN  /\ len <= parser.left
            /\ parser.chunks < MaxChunks
            /\ tickQueue' = Append(tickQueue, [chunk |-> chunk,
                                               isLast |-> (len = parser.left),
                                               resp |-> parser.resp])
            /\ parser' = [parser EXCEPT !.left = @ - len, !.pos = @ + len,
                                        !.chunks = @ + 1]
            /\ Commit(World, "body_chunk", len, 0, processed, hist)
            /\ UNCHANGED maxRequests

\* the bytes a sink may take of the data offered to it
Takes(data) == 0..Len(data)

\* the data the next tick offers to a sink that can take some: the chunk, if
\* the head record has a sink that has not ended
Offered(chunk) ==
    IF /\ pendingRequests # <<>>
       /\ Head(pendingRequests).request.response
       /\ ~sinks[Head(pendingRequests).id].ended
    THEN chunk
    ELSE <<>>

\* the oldest process.nextTick callback runs; an active sink takes k bytes
RunTick ==
    /\ tickQueue # <<>>
    /\ LET task == Head(tickQueue)
       IN  \E k \in Takes(Offered(task.chunk)) :
               Commit(onBodyChunkTick(World, task.chunk, task.isLast, k),
                      "tick", Len(task.chunk), k,
                      [processed EXCEPT ![task.resp] = @ + Len(task.chunk)],
                      hist)
    /\ tickQueue' = Tail(tickQueue)
    /\ UNCHANGED <<maxRequests, parser>>

\* a backpressured sink becomes writable and calls the registered handler,
\* taking k of the bytes the handler offers
Drain ==
    \E id \in RecordIds :
        /\ sinks[id].waiting
        /\ ~sinks[id].ended
        /\ sinks[id].handler # <<>>
        /\ \E k \in Takes(subarray(sinks[id].handler[1].data,
                                   sinks[id].offset - sinks[id].abOffset)) :
               Commit(onWritable(World, id, k), "drain", id, k, processed, hist)
        /\ UNCHANGED <<maxRequests, tickQueue, parser>>

\* what a completion callback does when it is called with the abort error
Reactions == {<<>>} \cup {<<request>> : request \in Requests}

\* the connection is aborted
Close ==
    \E onAborted \in Reactions :
        LET w == close(World, onAborted)
        IN  /\ hist.closes < MaxCloses
            /\ w.acc > hist.accepts => hist.sends < MaxRecords
            /\ Commit(w, "close", w.acc - hist.accepts, 0, processed,
                      [hist EXCEPT
                          !.closes = @ + 1,
                          !.sends = @ + w.acc - hist.accepts,
                          !.accepts = w.acc,
                          !.late = @ \/ (w.acc > hist.accepts /\ parser.resp > 0)])
            /\ UNCHANGED <<maxRequests, tickQueue, parser>>

Next ==
    \/ ScheduleSend
    \/ Headers
    \/ BodyChunk
    \/ RunTick
    \/ Drain
    \/ Close

Spec == Init /\ [][Next]_vars

SpecAnyLimit == InitAnyLimit /\ [][Next]_vars

\* ------------------------------------------------------------- the claims
InQueue(id) == \E i \in 1..Len(pendingRequests) : pendingRequests[i].id = id

\* a step of the named operation
Did(op) == last'.op = op

\* C1: FIFO correlation.  When all requests are scheduled before the parser
\* emits anything, every response has its request and close is not called,
\* the i-th record removed by terminateRequest is the i-th record enqueued
\* and holds the status code, status message and headers of response i and
\* a byte count equal to the body size response i declared.
FifoCorrelation ==
    (~hist.late /\ ~hist.early /\ hist.closes = 0) =>
        \A i \in 1..Len(terminated) :
            /\ terminated[i].id = i
            /\ terminated[i].statusCode = StatusCodeOf(i)
            /\ terminated[i].statusMessage = StatusMessageOf(i)
            /\ terminated[i].headers = HeadersOf(i, terminated[i].bytes)

\* C2: every record that was enqueued and has left the queue got exactly one
\* completion-callback invocation, and no record ever got more than one.
ExactlyOneTerminalCallback ==
    \A id \in 1..hist.sends :
        /\ Len(cbCalls[id]) <= 1
        /\ ~InQueue(id) => Len(cbCalls[id]) = 1

\* C3: with a positive maxRequests the queue never holds more than
\* maxRequests records, and a scheduleSend issued while it holds exactly
\* maxRequests throws E_PIPELINE_OVERFLOW, creates no record, calls neither
\* onAccepted nor a completion callback and leaves the queue unchanged.
AdmissionLimit ==
    /\ [](maxRequests > 0 => size(World) <= maxRequests)
    /\ [][(Did("scheduleSend") /\ maxRequests > 0
              /\ size(World) = maxRequests) =>
            /\ last'.err = "E_PIPELINE_OVERFLOW"
            /\ pendingRequests' = pendingRequests
            /\ hist'.sends = hist.sends
            /\ hist'.accepts = hist.accepts
            /\ accepted' = <<>>
            /\ cbCalls' = cbCalls]_vars

AdmissionLimitWitness ==
    /\ last.op = "scheduleSend"
    /\ last.err = "E_PIPELINE_OVERFLOW"
    /\ maxRequests > 0
    /\ size(World) = maxRequests

\* C4: abort completeness.  A close() step gives every queued record one
\* more completion-callback invocation, with E_PIPELINE_ABORTED, destroys its
\* response body stream and its request's body stream if it has one, and
\* leaves the queue empty.
AbortCompleteness ==
    [][Did("close") =>
         /\ \A i \in 1..Len(pendingRequests) :
               LET r == pendingRequests[i]
               IN  /\ cbCalls'[r.id] = Append(cbCalls[r.id], "E_PIPELINE_ABORTED")
                   /\ <<r.id, "response">> \in last'.destroyed
                   /\ r.request.body => <<r.id, "request">> \in last'.destroyed
         /\ size(World)' = 0]_vars

\* C5: a headers event, or a deferred body_chunk, processed while the queue
\* is empty throws nothing, invokes no callback and leaves the queue empty.
EmptyQueueEventIsNoOp ==
    [][((Did("headers") \/ Did("tick")) /\ pendingRequests = <<>>) =>
         /\ last'.err = "none"
         /\ pendingRequests' = <<>>
         /\ cbCalls' = cbCalls
         /\ hist'.accepts = hist.accepts]_vars

\* what the sink of a registered drain handler received since the handler's
\* chunk began is a prefix of that chunk
ChunkIntact(s) ==
    /\ s.handler # <<>>
    /\ LET d == s.handler[1].data
           n == s.offset - s.abOffset
       IN  /\ 0 <= n /\ n <= Len(d)
           /\ SubSeq(s.written, s.abOffset + 1, s.offset) = SubSeq(d, 1, n)

\* C6: partial-write retry.  When the sink of the head record takes only a
\* prefix of a body chunk and the response is not done, addBody saves the
\* offset the chunk began at and registers the chunk for draining; when the
\* sink then notifies the offset reached by that chunk's writes, the handler
\* offers the chunk from (notified offset - saved offset) on, so the sink
\* receives the next bytes of the chunk, none twice and none skipped, and the
\* handler returns true exactly when the rest of the chunk was taken.
PartialWriteRetry ==
    [][/\ (/\ Did("tick")
           /\ pendingRequests # <<>>
           /\ Head(pendingRequests).request.response
           /\ ~sinks[Head(pendingRequests).id].ended
           /\ last'.took < last'.arg
           /\ ~sinks'[Head(pendingRequests).id].ended) =>
              LET id == Head(pendingRequests).id
                  chunk == Head(tickQueue).chunk
              IN  /\ sinks'[id].abOffset = sinks[id].offset
                  /\ sinks'[id].handler[1].data = chunk
                  /\ sinks'[id].waiting
                  /\ sinks'[id].written =
                        sinks[id].written \o SubSeq(chunk, 1, last'.took)
                  /\ ChunkIntact(sinks'[id])
       /\ (Did("drain") /\ ChunkIntact(sinks[last'.arg])) =>
              LET id == last'.arg
                  d == sinks[id].handler[1].data
                  n == sinks[id].offset - sinks[id].abOffset
              IN  /\ sinks'[id].written =
                        sinks[id].written \o SubSeq(d, n + 1, n + last'.took)
                  /\ ChunkIntact(sinks'[id])
                  /\ last'.ret = "true" <=> n + last'.took = Len(d)]_vars

PartialWriteRetryWitness ==
    /\ last.op = "drain"
    /\ last.took = 1
    /\ last.ret = "true"
    /\ Len(sinks[last.arg].handler[1].data) = 2
    /\ sinks[last.arg].written = sinks[last.arg].handler[1].data

\* C7: a headers event with expectedBodySize 0 on a non-empty queue removes
\* the head record in that same step, queues no deferred work, and the
\* removed record carries the status and headers of the event and a duration.
ZeroLengthBodyTermination ==
    [][(Did("headers") /\ last'.arg = 0 /\ pendingRequests # <<>>) =>
         /\ pendingRequests' = Tail(pendingRequests)
         /\ size(World)' = size(World) - 1
         /\ tickQueue' = tickQueue
         /\ Len(terminated') = Len(terminated) + 1
         /\ LET t == terminated'[Len(terminated')]
                j == parser'.resp
            IN  /\ t.id = Head(pendingRequests).id
                /\ t.statusCode = StatusCodeOf(j)
                /\ t.statusMessage = StatusMessageOf(j)
                /\ t.headers = HeadersOf(j, 0)
                /\ t.duration # NoOffset
                /\ t.duration = clock' - 1 - t.startTime]_vars

ZeroLengthBodyTerminationWitness ==
    /\ last.op = "headers"
    /\ last.arg = 0
    /\ last.sizeBefore = 2
    /\ size(World) = 1
    /\ terminated # <<>>

\* C8: enqueue before acknowledgement.  A scheduleSend that does not throw
\* calls onAccepted once, and the queue onAccepted sees is the queue before
\* the call with the new record, of bytes 0, null status and no headers,
\* appended; that is the queue the call leaves.
EnqueueBeforeAcknowledgement ==
    [][(Did("scheduleSend") /\ last'.err = "none") =>
         /\ hist'.accepts = hist.accepts + 1
         /\ Len(accepted') = Len(pendingRequests) + 1
         /\ SubSeq(accepted', 1, Len(pendingRequests)) = pendingRequests
         /\ LET r == accepted'[Len(accepted')]
            IN  /\ r.id = hist.sends + 1
                /\ r.bytes = 0
                /\ r.statusCode = NullStatus
                /\ r.statusMessage = <<>>
                /\ r.headers = NoHeaders
         /\ pendingRequests' = accepted']_vars

EnqueueBeforeAcknowledgementWitness ==
    /\ last.op = "scheduleSend"
    /\ last.err = "none"
    /\ Len(accepted) = 2
    /\ hist.accepts = 2

\* C9: byte accounting.  When every response has its request, the bytes of
\* a record removed by terminateRequest equal the bytes of the chunks of its
\* own response that addBody had been called with by then.
ByteAccounting ==
    ~hist.early =>
        \A i \in 1..Len(terminated) : terminated[i].bytes = hist.own[i]

\* C10: head-of-line dequeue order.  The records removed by terminateRequest,
\* in removal order, followed by the records toArray() lists, are in enqueue
\* order, and every removal takes the oldest record still queued.
HeadOfLineOrder ==
    /\ [](LET all == terminated \o toArray(World)
          IN  \A i, j \in 1..Len(all) : i < j => all[i].id < all[j].id)
    /\ [][Len(terminated') > Len(terminated) =>
            /\ pendingRequests # <<>>
            /\ terminated'[Len(terminated')].id = Head(pendingRequests).id
            /\ Len(terminated') = Len(terminated) + 1
            /\ toArray(World)' = Tail(pendingRequests)]_vars

HeadOfLineOrderWitness ==
    /\ Len(terminated) = 1
    /\ size(World) = 1
    /\ hist.closes > 0
    /\ last.op = "tick"

\* C11: unlimited mode.  With maxRequests = 0, acceptsMoreRequests() is true
\* in every reachable state, whatever the queue holds, and no scheduleSend
\* throws E_PIPELINE_OVERFLOW: each one appends its record.
UnlimitedMode ==
    /\ [](maxRequests = 0 =>
            /\ acceptsMoreRequests(World)
            /\ \A request \in Requests :
                  scheduleSend(World, hist.sends + 1, request).err = "none")
    /\ [][(Did("scheduleSend") /\ maxRequests = 0) =>
            /\ last'.err = "none"
            /\ size(World)' = size(World) + 1]_vars

UnlimitedModeWitness ==
    /\ maxRequests = 0
    /\ last.op = "scheduleSend"
    /\ last.err = "none"
    /\ last.sizeBefore = 1
    /\ size(World) = 2

\* C12: the one-tick deferral keeps the emission order.  Parser events reach
\* the queue in the order the parser emitted them: a headers event is applied
\* only when every body_chunk emitted before it has been applied (none is
\* still waiting in process.nextTick), and the deferred chunks are applied
\* oldest first.
DeferralKeepsOrder ==
    [][/\ (Did("headers") /\ pendingRequests # <<>>) => tickQueue = <<>>
       /\ (Did("tick") /\ pendingRequests # <<>>) =>
             /\ tickQueue' = Tail(tickQueue)
             /\ last'.arg = Len(Head(tickQueue).chunk)
             /\ \A i \in 1..Len(tickQueue') :
                   \/ Head(tickQueue).resp < tickQueue'[i].resp
                   \/ /\ Head(tickQueue).resp = tickQueue'[i].resp
                      /\ Head(tickQueue).chunk[1] < tickQueue'[i].chunk[1]]_vars

\* C13: termination after the last chunk.  When every response has its
\* request, a record removed by terminateRequest has had every body chunk of
\* its own response applied: none of them is still waiting in
\* process.nextTick, whether the removal came from a last chunk or from the
\* headers of a following response with body size 0.
TerminationAfterLastChunk ==
    [][(Len(terminated') > Len(terminated) /\ ~hist'.early) =>
         LET id == terminated'[Len(terminated')].id
         IN  \A i \in 1..Len(tickQueue') : tickQueue'[i].resp # id]_vars

\* s is a prefix of t
IsPrefix(s, t) ==
    Len(s) <= Len(t) /\ s = SubSeq(t, 1, Len(s))

\* C14: chunks under backpressure.  What an active sink has taken is, at any
\* time, the beginning of the concatenation of the chunks handed to it, in
\* arrival order: no byte is lost, duplicated or reordered, also when a later
\* chunk arrives while the drain handler of an earlier one is pending.
BackpressureKeepsBytes ==
    \A id \in RecordIds : IsPrefix(sinks[id].written, sinks[id].arrived)

OnlyHeadMutated ==
    [][(Did("headers") \/ Did("body_chunk") \/ Did("tick")) =>
         \/ /\ Len(pendingRequests') = Len(pendingRequests)
            /\ \A i \in 2..Len(pendingRequests) :
                  pendingRequests'[i] = pendingRequests[i]
            /\ pendingRequests # <<>> =>
                  pendingRequests'[1].id = pendingRequests[1].id
         \/ /\ pendingRequests # <<>>
            /\ pendingRequests' = Tail(pendingRequests)]_vars

OnlyHeadMutatedWitness ==
    /\ last.op = "tick"
    /\ last.err = "none"
    /\ last.sizeBefore = 2
    /\ size(World) = 2
    /\ pendingRequests[1].bytes > 0
    /\ pendingRequests[1].statusCode # NullStatus
    /\ pendingRequests[2] = NewRecord(2, pendingRequests[2].request,
                                      pendingRequests[2].startTime)

\* C17: passive sink relay.  A deferred body_chunk processed while the head
\* record's request has no active sink completes without error and only adds
\* the chunk to that record's own body buffer: the call throws nothing, the
\* record has a body buffer to append to, and a last chunk then removes the
\* record.
PassiveSinkRelay ==
    [][(/\ Did("tick")
        /\ pendingRequests # <<>>
        /\ ~Head(pendingRequests).request.response) =>
           /\ last'.err = "none"
           /\ Head(pendingRequests).body # Undefined
           /\ Head(tickQueue).isLast =>
                 pendingRequests' = Tail(pendingRequests)]_vars

\* C18: drain loop.  Every drain notification, the first and the later ones,
\* writes the registered chunk from (notified offset - saved offset) on; the
\* handler returns true exactly when the sink took all of what that retry
\* offered and false when it took only part of it, and after a false the same
\* handler and saved offset stay registered and the sink, unless it has
\* ended, will notify again.
DrainLoop ==
    [][Did("drain") =>
         LET id == last'.arg
             s == sinks[id]
             rest == subarray(s.handler[1].data, s.offset - s.abOffset)
         IN  /\ sinks'[id].written = s.written \o SubSeq(rest, 1, last'.took)
             /\ sinks'[id].offset = s.offset + last'.took
             /\ last'.ret = "true" <=> last'.took = Len(rest)
             /\ last'.ret = "false" <=> last'.took < Len(rest)
             /\ sinks'[id].handler = s.handler
             /\ sinks'[id].abOffset = s.abOffset
             /\ (last'.ret = "false" /\ ~sinks'[id].ended) =>
                   sinks'[id].waiting]_vars

\* a notification whose retry the sink took one byte of two of: the handler
\* returned false and stays registered for the next notification
DrainLoopWitness ==
    /\ last.op = "drain"
    /\ last.took = 1
    /\ last.ret = "false"
    /\ sinks[last.arg].waiting
    /\ sinks[last.arg].offset - sinks[last.arg].abOffset = 1
    /\ Len(sinks[last.arg].handler[1].data) = 2
    /\ sinks[last.arg].written = <<11>>

\* C19 as stated: the advisory gate and the enforcing gate agree in every
\* reachable state, for every configured maxRequests, negative ones included:
\* acceptsMoreRequests() is false exactly when a scheduleSend issued now
\* would throw E_PIPELINE_OVERFLOW.
GatesAgree ==
    \A request \in Requests :
        ~acceptsMoreRequests(World) <=>
            scheduleSend(World, hist.sends + 1, request).err
                = "E_PIPELINE_OVERFLOW"

\* C19, amended: the two gates agree in every reachable state when the
\* configured maxRequests is 0 or positive.
GatesAgreeNonNegative == maxRequests >= 0 => GatesAgree

\* both gates closed right after the send that filled a queue of limit 1
GatesAgreeNonNegativeWitness ==
    /\ maxRequests = 1
    /\ size(World) = 1
    /\ ~acceptsMoreRequests(World)
    /\ overflow(World)
    /\ last.op = "scheduleSend"
    /\ last.err = "none"
    /\ Len(terminated) = 1

\* every admitted request has been answered by one complete event set, no
\* response came before its request, every deferred callback has run and
\* close() was never called
AllAnswered ==
    /\ hist.closes = 0
    /\ ~hist.early
    /\ parser.resp = hist.sends
    /\ parser.left = 0
    /\ tickQueue = <<>>

\* C20: eventual drain.  Once every admitted request has been answered by a
\* complete event set, in send order, and every deferred callback has run,
\* every record has been removed: size() is 0 without close().
EventualDrain == AllAnswered => size(World) = 0

====
